---- MODULE Spec2Model ----
(***************************************************************************)
(* Model of the web-app's next.config.mjs: the evaluation of the module    *)
(* (environment validation, secure headers, nextConfig, the Sentry and     *)
(* bundle-analyzer steps, the default export) and the hooks the host       *)
(* framework drives afterwards (headers(), webpack(), route matching).     *)
(*                                                                         *)
(* JavaScript values are written as follows: the booleans of buildEnv and  *)
(* the strings of process.env are the strings "true", "false",             *)
(* "undefined", ...; `x === true` is x = "true"; objects are records /     *)
(* functions over their keys; arrays are sequences; the three function     *)
(* valued keys (headers, rewrites, webpack) are the markers Fn(..), their  *)
(* behaviour being the actions headers and webpack below.                  *)
(***************************************************************************)
EXTENDS Integers, Sequences, FiniteSets, TLC

VARIABLES
    pc,                   \* position in the evaluation of the module
    envValid,             \* whether the two environment schemas accept the environment
    buildEnv,             \* buildEnv (build-env.config.mjs), as parsed
    processEnv,           \* process.env.NODE_ENV and process.env.ANALYZE
    console,              \* lines written by console.log
    secureHeadersOptions, \* the argument handed to createSecureHeaders
    secureHeaders,        \* const secureHeaders
    nextConfig,           \* const nextConfig
    config,               \* let config
    handed,               \* the objects handed to the add-on wrappers, in call order
    steps,                \* the add-on steps taken, in order
    exported,             \* whether `export default config` has run
    hcalls,               \* number of headers() calls so far (capped)
    firstHeaders,         \* what the first headers() call returned
    lastHeaders,          \* what the latest headers() call returned
    wpIn,                 \* the bundler config the host passed to the latest webpack() call
    wpOptions,            \* the options ({ isServer }) of that call
    wpObj,                \* the host's bundler config object after that call
    wpRet,                \* what that call returned
    request               \* the latest request routed by the host: path and headers attached

vars == <<pc, envValid, buildEnv, processEnv, console, secureHeadersOptions,
          secureHeaders, nextConfig, config, handed, steps, exported, hcalls,
          firstHeaders, lastHeaders, wpIn, wpOptions, wpObj, wpRet, request>>

inputVars == <<envValid, buildEnv, processEnv>>
moduleVars == <<pc, console, secureHeadersOptions, secureHeaders, nextConfig, config,
                handed, steps, exported>>
headerVars == <<hcalls, firstHeaders, lastHeaders>>
webpackVars == <<wpIn, wpOptions, wpObj, wpRet>>
hostVars == <<hcalls, firstHeaders, lastHeaders, wpIn, wpOptions, wpObj, wpRet, request>>

(***************************************************************************)
(* Bounds of the model.                                                    *)
(***************************************************************************)
MaxSecureHeaders == 2   \* longest header list the secure-header library returns
MaxCalls == 2           \* headers() calls that are counted
MaxPlugins == 1         \* plugins already in the bundler config the host passes
MaxRules == 1           \* module rules already in the bundler config the host passes
MaxSegments == 2        \* segments of a request path

(***************************************************************************)
(* JavaScript helpers.                                                     *)
(***************************************************************************)
Undefined == <<>>

Truthy(v) == v \notin {"false", "undefined", ""}

\* { ...a, ...b }: the keys of both, b winning
Spread(a, b) == [k \in DOMAIN a \cup DOMAIN b |-> IF k \in DOMAIN b THEN b[k] ELSE a[k]]

\* const { k, ...rest } = o
Rest(o, ks) == [k \in DOMAIN o \ ks |-> o[k]]

\* a ?? d
Nullish(a, d) == IF a = "undefined" THEN d ELSE a

Fn(name) == [function |-> name]

(***************************************************************************)
(* The environment.                                                        *)
(***************************************************************************)
JSBoolean == {"true", "false"}

BuildEnvs ==
    [NEXT_BUILD_ENV_SOURCEMAPS : JSBoolean,
     NEXT_BUILD_ENV_CSP : JSBoolean \cup {"undefined"},
     NEXT_BUILD_ENV_CI : JSBoolean,
     NEXT_BUILD_ENV_OUTPUT : {"standalone", "classic"},
     NEXT_BUILD_ENV_TYPECHECK : JSBoolean,
     NEXT_BUILD_ENV_TSCONFIG : {"./tsconfig.json"},
     NEXT_BUILD_ENV_LINT : JSBoolean,
     NEXT_BUILD_ENV_SENTRY_ENABLED : JSBoolean,
     NEXT_BUILD_ENV_SENTRY_DEBUG : JSBoolean,
     NEXT_BUILD_ENV_SENTRY_TRACING : JSBoolean,
     NEXT_BUILD_ENV_SENTRY_UPLOAD_DRY_RUN : JSBoolean]

\* The environments the host-side specifications start from: the flags that
\* neither webpack() nor the add-on steps read are held at one value.
HostBuildEnvs ==
    {e \in BuildEnvs :
        /\ e.NEXT_BUILD_ENV_SOURCEMAPS = "true"
        /\ e.NEXT_BUILD_ENV_CSP = "true"
        /\ e.NEXT_BUILD_ENV_CI = "false"
        /\ e.NEXT_BUILD_ENV_OUTPUT = "classic"
        /\ e.NEXT_BUILD_ENV_TYPECHECK = "true"
        /\ e.NEXT_BUILD_ENV_LINT = "true"
        /\ e.NEXT_BUILD_ENV_SENTRY_UPLOAD_DRY_RUN = "false"}

ProcessEnvs == [NODE_ENV : {"production", "development"}, ANALYZE : {"true", "1"}]

EnvValidities == [build : BOOLEAN, server : BOOLEAN]

\* path.resolve(dirname(import.meta.url), '..', '..')
workspaceRoot == "/workspace"

\* JSON.parse(readFileSync('./package.json')): a package.json without a version
packageJson == [name |-> "web-app", version |-> "undefined"]

\* new Date().toISOString() at evaluation
Now == "2023-04-01T00:00:00.000Z"

isProd == processEnv.NODE_ENV = "production"

(***************************************************************************)
(* Environment validation.  build-env.config.mjs and                       *)
(* server-runtime-env.config.mjs parse the environment against a schema    *)
(* and throw when it is missing or malformed.                              *)
(***************************************************************************)
buildEnvModule(valid) == IF valid THEN "ok" ELSE "throws"

getServerRuntimeEnv(valid) == IF valid THEN "ok" ELSE "throws"

(***************************************************************************)
(* createSecureHeaders and its argument.                                   *)
(***************************************************************************)
CspDirectives ==
    [defaultSrc |-> "'self'",
     styleSrc |-> <<"'self'", "'unsafe-inline'",
                    "https://unpkg.com/@graphql-yoga/graphiql/dist/style.css",
                    "https://meet.jitsi.si", "https://8x8.vc">>,
     scriptSrc |-> <<"'self'", "'unsafe-eval'", "'unsafe-inline'",
                     "https://unpkg.com/@graphql-yoga/graphiql">>,
     frameSrc |-> <<"'self'">>,
     connectSrc |-> <<"'self'", "https://vitals.vercel-insights.com",
                      "https://*.sentry.io">>,
     imgSrc |-> <<"'self'", "https:", "http:", "data:">>,
     workerSrc |-> <<"blob:">>]

ContentSecurityPolicy(env) ==
    [directives |-> IF env.NEXT_BUILD_ENV_CSP = "true" THEN CspDirectives ELSE Undefined]

\* Variant: the redirect is tied to production alone.
ForceHTTPSRedirect_prodOnly(env, penv) ==
    IF penv.NODE_ENV = "production"
    THEN [forceHTTPSRedirect |->
            <<TRUE, [maxAge |-> 60 * 60 * 24 * 4, includeSubDomains |-> TRUE]>>]
    ELSE Undefined

ForceHTTPSRedirect(env, penv) ==
    IF env.NEXT_BUILD_ENV_CSP = "true" /\ penv.NODE_ENV = "production"
    THEN [forceHTTPSRedirect |->
            <<TRUE, [maxAge |-> 60 * 60 * 24 * 4, includeSubDomains |-> TRUE]>>]
    ELSE Undefined

SecureHeadersArg(env, penv) ==
    Spread(Spread([contentSecurityPolicy |-> ContentSecurityPolicy(env)],
                  ForceHTTPSRedirect(env, penv)),
           [referrerPolicy |-> "same-origin"])

\* The names of the headers the library may emit; what it emits for given
\* options is the library's business: any list of at most MaxSecureHeaders.
SecureHeaderNames ==
    <<"Strict-Transport-Security", "Referrer-Policy", "Content-Security-Policy",
      "X-Frame-Options", "X-Content-Type-Options", "X-XSS-Protection">>

createSecureHeaders ==
    {[i \in 1..n |-> [key |-> SecureHeaderNames[i], value |-> "secure"]] :
        n \in 0..MaxSecureHeaders}

(***************************************************************************)
(* nextConfig.                                                             *)
(***************************************************************************)
Images ==
    [deviceSizes |-> <<640, 750, 828, 1080, 1200, 1920, 2048, 3840>>,
     imageSizes |-> <<16, 32, 48, 64, 96, 128, 256, 384>>,
     minimumCacheTTL |-> 60,
     formats |-> <<"image/webp">>,
     loader |-> "default",
     dangerouslyAllowSVG |-> FALSE,
     disableStaticImages |-> FALSE,
     contentSecurityPolicy |-> "default-src 'self'; script-src 'none'; sandbox;",
     remotePatterns |-> <<[protocol |-> "https",
                           hostname |-> "avatars.githubusercontent.com"]>>,
     unoptimized |-> FALSE]

ModularizeImports ==
    ("@mui/material" :> [transform |-> "@mui/material/{{member}}"]) @@
    ("@mui/icons-material" :> [transform |-> "@mui/icons-material/{{member}}"]) @@
    ("@mui/styles" :> [transform |-> "@mui/styles/{{member}}"])

\* Variant: any output mode that is set counts as standalone.
StandaloneKeys_truthy(env) ==
    IF Truthy(env.NEXT_BUILD_ENV_OUTPUT)
    THEN [output |-> "standalone", outputFileTracing |-> TRUE]
    ELSE Undefined

StandaloneKeys(env) ==
    IF env.NEXT_BUILD_ENV_OUTPUT = "standalone"
    THEN [output |-> "standalone", outputFileTracing |-> TRUE]
    ELSE Undefined

Experimental(env) ==
    Spread(IF env.NEXT_BUILD_ENV_OUTPUT = "standalone"
           THEN [outputFileTracingRoot |-> workspaceRoot]
           ELSE Undefined,
           [esmExternals |-> TRUE, externalDir |-> TRUE])

NextConfig(env, penv) ==
    Spread(
      Spread(
        [reactStrictMode |-> TRUE,
         productionBrowserSourceMaps |-> (env.NEXT_BUILD_ENV_SOURCEMAPS = "true"),
         i18n |-> "nextI18nConfig.i18n",
         optimizeFonts |-> TRUE,
         httpAgentOptions |-> [keepAlive |-> TRUE],
         onDemandEntries |->
            [maxInactiveAge |->
                (IF Truthy(env.NEXT_BUILD_ENV_CI) THEN 3600 ELSE 25) * 1000],
         swcMinify |-> TRUE,
         compiler |-> Undefined,
         sentry |-> [hideSourceMaps |-> TRUE, autoInstrumentServerFunctions |-> FALSE],
         images |-> Images,
         transpilePackages |->
            (IF penv.NODE_ENV = "production" THEN <<"ofetch">> ELSE <<>>),
         modularizeImports |-> ModularizeImports],
        StandaloneKeys(env)),
      [experimental |-> Experimental(env),
       typescript |-> [ignoreBuildErrors |-> ~Truthy(env.NEXT_BUILD_ENV_TYPECHECK),
                       tsconfigPath |-> env.NEXT_BUILD_ENV_TSCONFIG],
       eslint |-> [ignoreDuringBuilds |-> ~Truthy(env.NEXT_BUILD_ENV_LINT)],
       headers |-> Fn("headers"),
       rewrites |-> Fn("rewrites"),
       webpack |-> Fn("webpack"),
       env |-> [APP_NAME |-> Nullish(packageJson.name, "not-in-package.json"),
                APP_VERSION |-> Nullish(packageJson.version, "not-in-package.json"),
                BUILD_TIME |-> Now]])

(***************************************************************************)
(* The add-on wrappers.  What the libraries return is theirs to decide:    *)
(* the model keeps the wrapped object and the options handed over.         *)
(***************************************************************************)
withSentryConfig(cfg, options) ==
    [wrapper |-> "withSentryConfig", options |-> options, inner |-> cfg]

withBundleAnalyzer(options, cfg) ==
    [wrapper |-> "withBundleAnalyzer", options |-> options, inner |-> cfg]

SentryWebpackPluginOptions(env) ==
    [dryRun |-> (env.NEXT_BUILD_ENV_SENTRY_UPLOAD_DRY_RUN = "true"),
     silent |-> (env.NEXT_BUILD_ENV_SENTRY_DEBUG = "false")]

\* Variant: the destructuring also takes `images` out of the rest.
OmitSentryKey_images(cfg) == Rest(cfg, {"sentry", "images"})

\* Variant: the destructured `sentry` is assigned instead of the rest.
OmitSentryKey_wrongName(cfg) == cfg.sentry

\* const { sentry, ...rest } = config
OmitSentryKey(cfg) == Rest(cfg, {"sentry"})

(***************************************************************************)
(* Evaluation of the module, top to bottom.                                *)
(***************************************************************************)
InitState ==
    /\ pc = "import"
    /\ console = <<>>
    /\ secureHeadersOptions = Undefined
    /\ secureHeaders = <<>>
    /\ nextConfig = Undefined
    /\ config = Undefined
    /\ handed = <<>>
    /\ steps = <<>>
    /\ exported = FALSE
    /\ hcalls = 0
    /\ firstHeaders = <<>>
    /\ lastHeaders = <<>>
    /\ wpIn = Undefined
    /\ wpOptions = Undefined
    /\ wpObj = Undefined
    /\ wpRet = Undefined
    /\ request = [path |-> <<>>, headers |-> <<>>]

Init ==
    /\ envValid \in EnvValidities
    /\ buildEnv \in BuildEnvs
    /\ processEnv \in ProcessEnvs
    /\ InitState

\* import { buildEnv } from './src/config/build-env.config.mjs'
ImportBuildEnv ==
    /\ pc = "import"
    /\ pc' = IF buildEnvModule(envValid.build) = "throws" THEN "failed" ELSE "validate"
    /\ UNCHANGED <<console, secureHeadersOptions, secureHeaders, nextConfig, config,
                   handed, steps, exported>>
    /\ UNCHANGED <<inputVars, hostVars>>

\* Variant: the validation error is caught and evaluation goes on.
CallGetServerRuntimeEnv_caught ==
    /\ pc = "validate"
    /\ pc' = "globals"
    /\ UNCHANGED <<console, secureHeadersOptions, secureHeaders, nextConfig, config,
                   handed, steps, exported>>
    /\ UNCHANGED <<inputVars, hostVars>>

\* const _serverEnv = getServerRuntimeEnv()
CallGetServerRuntimeEnv ==
    /\ pc = "validate"
    /\ pc' = IF getServerRuntimeEnv(envValid.server) = "throws" THEN "failed" ELSE "globals"
    /\ UNCHANGED <<console, secureHeadersOptions, secureHeaders, nextConfig, config,
                   handed, steps, exported>>
    /\ UNCHANGED <<inputVars, hostVars>>

\* workspaceRoot, packageJson, isProd and the sourcemaps notice
ResolveGlobals ==
    /\ pc = "globals"
    /\ console' = IF ~Truthy(buildEnv.NEXT_BUILD_ENV_SOURCEMAPS)
                  THEN Append(console, "info: sourcemaps generation disabled")
                  ELSE console
    /\ pc' = "secureHeaders"
    /\ UNCHANGED <<secureHeadersOptions, secureHeaders, nextConfig, config,
                   handed, steps, exported>>
    /\ UNCHANGED <<inputVars, hostVars>>

\* const secureHeaders = createSecureHeaders({...})
CreateSecureHeaders ==
    /\ pc = "secureHeaders"
    /\ secureHeadersOptions' = SecureHeadersArg(buildEnv, processEnv)
    /\ secureHeaders' \in createSecureHeaders
    /\ pc' = "nextConfig"
    /\ UNCHANGED <<console, nextConfig, config, handed, steps, exported>>
    /\ UNCHANGED <<inputVars, hostVars>>

\* const nextConfig = {...}; let config = nextConfig
BuildNextConfig ==
    /\ pc = "nextConfig"
    /\ nextConfig' = NextConfig(buildEnv, processEnv)
    /\ config' = nextConfig'
    /\ pc' = "telemetry"
    /\ UNCHANGED <<console, secureHeadersOptions, secureHeaders, handed, steps, exported>>
    /\ UNCHANGED <<inputVars, hostVars>>

\* if (NEXT_BUILD_ENV_SENTRY_ENABLED === true) config = withSentryConfig(config, {...})
WithSentryConfig ==
    /\ pc = "telemetry"
    /\ buildEnv.NEXT_BUILD_ENV_SENTRY_ENABLED = "true"
    /\ handed' = Append(handed, config)
    /\ config' = withSentryConfig(config, SentryWebpackPluginOptions(buildEnv))
    /\ steps' = Append(steps, "withSentryConfig")
    /\ pc' = "analyze"
    /\ UNCHANGED <<console, secureHeadersOptions, secureHeaders, nextConfig, exported>>
    /\ UNCHANGED <<inputVars, hostVars>>

\* else { const { sentry, ...rest } = config; config = rest }
OmitSentry ==
    /\ pc = "telemetry"
    /\ buildEnv.NEXT_BUILD_ENV_SENTRY_ENABLED # "true"
    /\ config' = OmitSentryKey(config)
    /\ steps' = Append(steps, "omitSentry")
    /\ pc' = "analyze"
    /\ UNCHANGED <<console, secureHeadersOptions, secureHeaders, nextConfig, handed,
                   exported>>
    /\ UNCHANGED <<inputVars, hostVars>>

\* Variant: `if (process.env.ANALYZE)`.
WithBundleAnalyzer_truthy ==
    /\ pc = "analyze"
    /\ Truthy(processEnv.ANALYZE)
    /\ handed' = Append(handed, config)
    /\ config' = withBundleAnalyzer([enabled |-> TRUE], config)
    /\ steps' = Append(steps, "withBundleAnalyzer")
    /\ pc' = "export"
    /\ UNCHANGED <<console, secureHeadersOptions, secureHeaders, nextConfig, exported>>
    /\ UNCHANGED <<inputVars, hostVars>>

\* if (process.env.ANALYZE === 'true') config = withBundleAnalyzer({enabled: true})(config)
WithBundleAnalyzer ==
    /\ pc = "analyze"
    /\ processEnv.ANALYZE = "true"
    /\ handed' = Append(handed, config)
    /\ config' = withBundleAnalyzer([enabled |-> TRUE], config)
    /\ steps' = Append(steps, "withBundleAnalyzer")
    /\ pc' = "export"
    /\ UNCHANGED <<console, secureHeadersOptions, secureHeaders, nextConfig, exported>>
    /\ UNCHANGED <<inputVars, hostVars>>

SkipBundleAnalyzer ==
    /\ pc = "analyze"
    /\ processEnv.ANALYZE # "true"
    /\ pc' = "export"
    /\ UNCHANGED <<console, secureHeadersOptions, secureHeaders, nextConfig, config,
                   handed, steps, exported>>
    /\ UNCHANGED <<inputVars, hostVars>>

\* export default config
ExportDefault ==
    /\ pc = "export"
    /\ exported' = TRUE
    /\ pc' = "exported"
    /\ UNCHANGED <<console, secureHeadersOptions, secureHeaders, nextConfig, config,
                   handed, steps>>
    /\ UNCHANGED <<inputVars, hostVars>>

(***************************************************************************)
(* nextConfig.headers(), as the host calls it.                             *)
(***************************************************************************)
HeaderSource == "/:path((?!api).*)*"

CrossOriginHeaders ==
    <<[key |-> "Cross-Origin-Opener-Policy", value |-> "same-origin"],
      [key |-> "Cross-Origin-Embedder-Policy", value |-> "same-origin"]>>

\* Variant: the cross-origin headers come first.
HeadersResult_crossOriginFirst(secure) ==
    <<[source |-> HeaderSource, headers |-> CrossOriginHeaders \o secure]>>

HeadersResult(secure) ==
    <<[source |-> HeaderSource, headers |-> secure \o CrossOriginHeaders]>>

\* Variant: each call pushes the cross-origin headers onto the shared array.
headers_push ==
    /\ exported
    /\ hcalls < MaxCalls
    /\ hcalls' = hcalls + 1
    /\ secureHeaders' = secureHeaders \o CrossOriginHeaders
    /\ lastHeaders' = <<[source |-> HeaderSource, headers |-> secureHeaders']>>
    /\ firstHeaders' = IF hcalls = 0 THEN lastHeaders' ELSE firstHeaders
    /\ UNCHANGED <<pc, console, secureHeadersOptions, nextConfig, config, handed,
                   steps, exported>>
    /\ UNCHANGED <<inputVars, webpackVars, request>>

headers ==
    /\ exported
    /\ hcalls < MaxCalls
    /\ hcalls' = hcalls + 1
    /\ lastHeaders' = HeadersResult(secureHeaders)
    /\ firstHeaders' = IF hcalls = 0 THEN lastHeaders' ELSE firstHeaders
    /\ UNCHANGED <<moduleVars, inputVars, webpackVars, request>>

(***************************************************************************)
(* nextConfig.webpack(config, { webpack, isServer }).                      *)
(***************************************************************************)
DefinePlugin(env) ==
    [plugin |-> "DefinePlugin",
     definitions |-> [__SENTRY_DEBUG__ |-> env.NEXT_BUILD_ENV_SENTRY_DEBUG,
                      __SENTRY_TRACING__ |-> env.NEXT_BUILD_ENV_SENTRY_TRACING]]

PrismaPlugin == [plugin |-> "PrismaPlugin"]

SvgRule(prod) ==
    [test |-> "/\\.svg$/",
     issuer |-> "/\\.(js|ts)x?$/",
     use |-> <<[loader |-> "@svgr/webpack", options |-> [svgo |-> prod]]>>]

\* Variant: the fallback is replaced instead of extended.
WebpackHook_noSpread(cfg, isServer, env, prod) ==
    LET resolved == IF ~isServer
                    THEN [cfg.resolve EXCEPT !.fallback = [fs |-> "false"]]
                    ELSE cfg.resolve
        defined == Append(cfg.plugins, DefinePlugin(env))
        plugged == IF isServer THEN Append(defined, PrismaPlugin) ELSE defined
    IN  [cfg EXCEPT !.resolve = resolved,
                    !.plugins = plugged,
                    !.module = [cfg.module EXCEPT
                                  !.rules = Append(cfg.module.rules, SvgRule(prod))]]

\* The hook changes the object it is given and returns it.
WebpackHook(cfg, isServer, env, prod) ==
    LET resolved == IF ~isServer
                    THEN [cfg.resolve EXCEPT
                            !.fallback = Spread(cfg.resolve.fallback, [fs |-> "false"])]
                    ELSE cfg.resolve
        defined == Append(cfg.plugins, DefinePlugin(env))
        plugged == IF isServer THEN Append(defined, PrismaPlugin) ELSE defined
    IN  [cfg EXCEPT !.resolve = resolved,
                    !.plugins = plugged,
                    !.module = [cfg.module EXCEPT
                                  !.rules = Append(cfg.module.rules, SvgRule(prod))]]

\* The bundler configs the host may pass: resolve.fallback over some of the
\* names below, and a few plugins and rules of its own.
Fallbacks ==
    {Undefined, [path |-> "false"], [fs |-> "browserify-fs"],
     [fs |-> "browserify-fs", path |-> "false"]}

BundlerConfigs ==
    {[ref |-> "bundlerConfig",
      resolve |-> [fallback |-> fb],
      plugins |-> [i \in 1..np |-> [plugin |-> "HostPlugin", n |-> i]],
      module |-> [rules |-> [i \in 1..nr |-> [test |-> "HostRule", n |-> i]]]] :
        fb \in Fallbacks, np \in 0..MaxPlugins, nr \in 0..MaxRules}

webpack ==
    /\ exported
    /\ \E cfg \in BundlerConfigs, isServer \in BOOLEAN :
          /\ wpIn' = cfg
          /\ wpOptions' = [isServer |-> isServer]
          /\ wpObj' = WebpackHook(cfg, isServer, buildEnv, isProd)
          /\ wpRet' = wpObj'
    /\ UNCHANGED <<moduleVars, inputVars, headerVars, request>>

(***************************************************************************)
(* Routing: the host compiles the route's source with path-to-regexp and   *)
(* attaches the route's headers to the responses of the paths it matches.  *)
(* The source is one parameter, `path`, with a custom pattern and the      *)
(* zero-or-more modifier: the compiled expression accepts the empty path,  *)
(* or a slash followed by the pattern, followed by any number of further   *)
(* (slash, pattern) groups, up to the end of the path.  The pattern is a   *)
(* negative lookahead for the letters a, p, i followed by any characters   *)
(* (slashes included).                                                     *)
(***************************************************************************)
ApiAt(p, i) == i + 2 <= Len(p) /\ SubSeq(p, i, i + 2) = <<"a", "p", "i">>

\* the further (slash, pattern) groups and the end of the path, from position i;
\* the pattern's `any characters` takes p[i+1..j-1]
RECURSIVE MatchMore(_, _)
MatchMore(p, i) ==
    \/ i = Len(p) + 1
    \/ /\ i <= Len(p)
       /\ p[i] = "/"
       /\ ~ApiAt(p, i + 1)
       /\ \E j \in (i + 1)..(Len(p) + 1) : MatchMore(p, j)

MatchHeaderSource(p) ==
    \/ p = <<>>
    \/ /\ Len(p) >= 1
       /\ p[1] = "/"
       /\ ~ApiAt(p, 2)
       /\ \E j \in 2..(Len(p) + 1) : MatchMore(p, j)

Segments == {<<>>, <<"x">>, <<"a", "p", "i">>, <<"a", "p", "i", "x">>}

RECURSIVE JoinPath(_)
JoinPath(segs) ==
    IF segs = <<>> THEN <<>> ELSE <<"/">> \o Head(segs) \o JoinPath(Tail(segs))

RequestPaths ==
    {JoinPath(segs) : segs \in UNION {[1..n -> Segments] : n \in 1..MaxSegments}}

AttachedHeaders(routes, p) ==
    IF routes # <<>> /\ MatchHeaderSource(p) THEN routes[1].headers ELSE <<>>

Request ==
    /\ exported
    /\ hcalls > 0
    /\ \E p \in RequestPaths :
          request' = [path |-> p, headers |-> AttachedHeaders(lastHeaders, p)]
    /\ UNCHANGED <<moduleVars, inputVars, headerVars, webpackVars>>

(***************************************************************************)
(* Specifications.                                                         *)
(***************************************************************************)
Evaluate ==
    \/ ImportBuildEnv
    \/ CallGetServerRuntimeEnv
    \/ ResolveGlobals
    \/ CreateSecureHeaders
    \/ BuildNextConfig
    \/ WithSentryConfig
    \/ OmitSentry
    \/ WithBundleAnalyzer
    \/ SkipBundleAnalyzer
    \/ ExportDefault

Next == Evaluate \/ headers

Spec == Init /\ [][Next]_vars

InitHost ==
    /\ envValid \in EnvValidities
    /\ buildEnv \in HostBuildEnvs
    /\ processEnv \in ProcessEnvs
    /\ InitState

NextWebpack == Evaluate \/ headers \/ webpack

SpecWebpack == InitHost /\ [][NextWebpack]_vars

NextRoute == Evaluate \/ headers \/ Request

SpecRoute == InitHost /\ [][NextRoute]_vars

(***************************************************************************)
(* Properties.                                                             *)
(***************************************************************************)
\* secureHeaders has been created
HeadersBuilt == pc \in {"nextConfig", "telemetry", "analyze", "export", "exported"}

\* nextConfig has been built
Configured == pc \in {"telemetry", "analyze", "export", "exported"}

\* the object of this module under the add-on wrappers
RECURSIVE BaseOf(_)
BaseOf(cfg) == IF "wrapper" \in DOMAIN cfg THEN BaseOf(cfg.inner) ELSE cfg

Last(s) == s[Len(s)]

IsWrapped(cfg, name) == "wrapper" \in DOMAIN cfg /\ cfg.wrapper = name

DirectiveNames ==
    {"defaultSrc", "styleSrc", "scriptSrc", "frameSrc", "connectSrc", "imgSrc", "workerSrc"}

\* C1: the directive set handed to createSecureHeaders has the seven directives
\* when NEXT_BUILD_ENV_CSP is true and is empty otherwise; and every headers()
\* result is the secure headers followed by Cross-Origin-Opener-Policy and
\* Cross-Origin-Embedder-Policy (both same-origin), in that order.
C1_HeaderPolicy ==
    /\ HeadersBuilt =>
          LET d == secureHeadersOptions.contentSecurityPolicy.directives
          IN  /\ buildEnv.NEXT_BUILD_ENV_CSP = "true" =>
                    DOMAIN d = DirectiveNames
              /\ buildEnv.NEXT_BUILD_ENV_CSP # "true" => DOMAIN d = {}
    /\ hcalls > 0 =>
          /\ Len(lastHeaders) = 1
          /\ LET h == lastHeaders[1].headers
                 n == Len(secureHeaders)
             IN  /\ Len(h) = n + 2
                 /\ SubSeq(h, 1, n) = secureHeaders
                 /\ h[n + 1] = [key |-> "Cross-Origin-Opener-Policy", value |-> "same-origin"]
                 /\ h[n + 2] = [key |-> "Cross-Origin-Embedder-Policy", value |-> "same-origin"]

C1_Witness ==
    /\ hcalls > 0
    /\ buildEnv.NEXT_BUILD_ENV_CSP = "false"
    /\ Len(secureHeaders) > 0
    /\ DOMAIN secureHeadersOptions.contentSecurityPolicy.directives = {}

\* C2: with NEXT_BUILD_ENV_OUTPUT = 'standalone' the configuration has output:
\* 'standalone', outputFileTracing: true and experimental.outputFileTracingRoot
\* set to the workspace root; with any other value none of the three keys is
\* there; experimental.esmExternals and experimental.externalDir are there in
\* both cases.
C2_StandaloneKeys ==
    Configured =>
       \A c \in {nextConfig, BaseOf(config)} :
          /\ buildEnv.NEXT_BUILD_ENV_OUTPUT = "standalone" =>
                /\ {"output", "outputFileTracing"} \subseteq DOMAIN c
                /\ c.output = "standalone"
                /\ c.outputFileTracing = TRUE
                /\ "outputFileTracingRoot" \in DOMAIN c.experimental
                /\ c.experimental.outputFileTracingRoot = workspaceRoot
          /\ buildEnv.NEXT_BUILD_ENV_OUTPUT # "standalone" =>
                /\ {"output", "outputFileTracing"} \cap DOMAIN c = {}
                /\ "outputFileTracingRoot" \notin DOMAIN c.experimental
          /\ {"esmExternals", "externalDir"} \subseteq DOMAIN c.experimental
          /\ c.experimental.esmExternals = TRUE
          /\ c.experimental.externalDir = TRUE

C2_Witness ==
    /\ pc = "exported"
    /\ buildEnv.NEXT_BUILD_ENV_OUTPUT = "classic"
    /\ "output" \notin DOMAIN nextConfig
    /\ "esmExternals" \in DOMAIN nextConfig.experimental

\* C3: when the environment fails validation, evaluation stops before secure
\* headers or a configuration exist: nothing is built, nothing is handed to a
\* wrapper, nothing is exported and headers() is never called.
C3_ValidationFirst ==
    (~envValid.build \/ ~envValid.server) =>
        /\ pc \in {"import", "validate", "failed"}
        /\ ~envValid.build => pc \in {"import", "failed"}
        /\ DOMAIN secureHeadersOptions = {}
        /\ secureHeaders = <<>>
        /\ DOMAIN nextConfig = {}
        /\ DOMAIN config = {}
        /\ handed = <<>>
        /\ steps = <<>>
        /\ ~exported
        /\ hcalls = 0

C3_Witness ==
    /\ pc = "failed"
    /\ envValid.build
    /\ ~envValid.server

\* The keys of nextConfig each flag decides.
GovernedBy ==
    [NEXT_BUILD_ENV_SOURCEMAPS |-> {"productionBrowserSourceMaps"},
     NEXT_BUILD_ENV_CSP |-> {"headers"},
     NEXT_BUILD_ENV_CI |-> {"onDemandEntries"},
     NEXT_BUILD_ENV_OUTPUT |-> {"output", "outputFileTracing", "experimental"},
     NEXT_BUILD_ENV_TYPECHECK |-> {"typescript"},
     NEXT_BUILD_ENV_TSCONFIG |-> {"typescript"},
     NEXT_BUILD_ENV_LINT |-> {"eslint"},
     NEXT_BUILD_ENV_SENTRY_ENABLED |-> {"sentry"},
     NEXT_BUILD_ENV_SENTRY_DEBUG |-> {"webpack"},
     NEXT_BUILD_ENV_SENTRY_TRACING |-> {"webpack"},
     NEXT_BUILD_ENV_SENTRY_UPLOAD_DRY_RUN |-> {},
     NODE_ENV |-> {"transpilePackages", "headers", "webpack"},
     ANALYZE |-> {}]

BuildEnvValues == [f \in DOMAIN GovernedBy \ {"NODE_ENV", "ANALYZE"} |-> {e[f] : e \in BuildEnvs}]

ProcessEnvValues == [f \in {"NODE_ENV", "ANALYZE"} |-> {e[f] : e \in ProcessEnvs}]

SameOutside(a, b, keys) ==
    /\ DOMAIN a \ keys = DOMAIN b \ keys
    /\ \A k \in DOMAIN a \ keys : a[k] = b[k]

\* changing one flag leaves every key that flag does not decide as it is
SectionsIndependent ==
    pc = "telemetry" =>
       /\ \A f \in DOMAIN BuildEnvValues : \A v \in BuildEnvValues[f] :
             SameOutside(nextConfig,
                         NextConfig([buildEnv EXCEPT ![f] = v], processEnv),
                         GovernedBy[f])
       /\ \A f \in DOMAIN ProcessEnvValues : \A v \in ProcessEnvValues[f] :
             SameOutside(nextConfig,
                         NextConfig(buildEnv, [processEnv EXCEPT ![f] = v]),
                         GovernedBy[f])

\* nextConfig with the sentry key taken out and everything else as it was
WithoutSentry(cfg) ==
    /\ DOMAIN cfg = DOMAIN nextConfig \ {"sentry"}
    /\ \A k \in DOMAIN cfg : cfg[k] = nextConfig[k]

\* C4 as stated: sections are independent, and with
\* NEXT_BUILD_ENV_SENTRY_ENABLED not true the exported config is the base
\* config with only the sentry key removed.
C4_AsStated ==
    /\ SectionsIndependent
    /\ (pc = "exported" /\ buildEnv.NEXT_BUILD_ENV_SENTRY_ENABLED # "true") =>
          /\ "images" \in DOMAIN config
          /\ WithoutSentry(config)

\* C4 (amended): sections are independent, and with
\* NEXT_BUILD_ENV_SENTRY_ENABLED not true the config the telemetry step leaves
\* is the base config with only the sentry key removed; that config is the
\* exported one when ANALYZE is not 'true', and the one handed to (and wrapped
\* by) the bundle analyzer when it is.
C4_TelemetryOnlyDropsSentry ==
    /\ SectionsIndependent
    /\ (pc \in {"analyze", "export", "exported"}
          /\ buildEnv.NEXT_BUILD_ENV_SENTRY_ENABLED # "true") =>
          IF IsWrapped(config, "withBundleAnalyzer")
          THEN /\ processEnv.ANALYZE = "true"
               /\ WithoutSentry(config.inner)
               /\ config.inner.images = nextConfig.images
               /\ Last(handed) = config.inner
          ELSE /\ pc = "exported" => processEnv.ANALYZE # "true"
               /\ WithoutSentry(config)
               /\ config.images = nextConfig.images

C4_Witness ==
    /\ pc = "exported"
    /\ buildEnv.NEXT_BUILD_ENV_SENTRY_ENABLED = "false"
    /\ processEnv.ANALYZE # "true"
    /\ "sentry" \notin DOMAIN config
    /\ "sentry" \in DOMAIN nextConfig
    /\ "images" \in DOMAIN config

\* a path under /api: its first segment is exactly `api`
IsApiRoute(p) ==
    /\ Len(p) >= 4
    /\ SubSeq(p, 1, 4) = <<"/", "a", "p", "i">>
    /\ (Len(p) = 4 \/ p[5] = "/")

\* C5: the header list is attached to a request exactly when its path is not
\* an /api route.
C5_AllNonApiRoutes ==
    request.path # <<>> =>
        /\ ~IsApiRoute(request.path) => request.headers = lastHeaders[1].headers
        /\ IsApiRoute(request.path) => request.headers = <<>>

\* the path /apix: a page whose name begins with the letters api
C5_Reached == request.path = <<"/", "a", "p", "i", "x">> /\ request.headers = <<>>

\* C6: once created, secureHeaders never changes, and every headers() call
\* returns what the first call returned, whatever webpack() calls came between.
C6_HeadersConstant ==
    [][/\ HeadersBuilt => secureHeaders' = secureHeaders
       /\ hcalls' > 0 =>
             /\ lastHeaders' = firstHeaders'
             /\ lastHeaders'[1].source = HeaderSource
       /\ hcalls > 0 => firstHeaders' = firstHeaders]_vars

C6_Witness ==
    /\ hcalls >= 2
    /\ DOMAIN wpRet # {}
    /\ Len(secureHeaders) > 0
    /\ lastHeaders = firstHeaders

RequiredKeys ==
    {"reactStrictMode", "productionBrowserSourceMaps", "i18n", "images",
     "transpilePackages", "modularizeImports", "experimental", "typescript",
     "eslint", "headers", "rewrites", "webpack", "env"}

\* C7: whatever the flags, nextConfig, the object under every object handed to
\* an add-on wrapper, and the object under the exported config have all the
\* required keys.
C7_RequiredKeys ==
    Configured =>
        /\ RequiredKeys \subseteq DOMAIN nextConfig
        /\ \A i \in 1..Len(handed) : RequiredKeys \subseteq DOMAIN BaseOf(handed[i])
        /\ RequiredKeys \subseteq DOMAIN BaseOf(config)

C7_Witness ==
    /\ pc = "exported"
    /\ Len(handed) = 1
    /\ buildEnv.NEXT_BUILD_ENV_SENTRY_ENABLED = "false"
    /\ processEnv.ANALYZE = "true"
    /\ RequiredKeys \subseteq DOMAIN handed[1]

\* C8: the telemetry step comes first (withSentryConfig when
\* NEXT_BUILD_ENV_SENTRY_ENABLED is true, the removal of `sentry` otherwise,
\* never both), the bundle analyzer comes last and only when ANALYZE is 'true',
\* wrapping what the telemetry step left; the exported object is the last result.
C8_AddOnOrder ==
    LET telemetry == IF buildEnv.NEXT_BUILD_ENV_SENTRY_ENABLED = "true"
                     THEN "withSentryConfig" ELSE "omitSentry"
        analyze == processEnv.ANALYZE = "true"
        left(c) == IF telemetry = "withSentryConfig"
                   THEN /\ IsWrapped(c, "withSentryConfig")
                        /\ c.inner = nextConfig
                        /\ handed[1] = nextConfig
                   ELSE /\ "wrapper" \notin DOMAIN c
                        /\ "sentry" \notin DOMAIN c
    IN  /\ pc \in {"import", "validate", "globals", "secureHeaders", "nextConfig",
                   "telemetry", "failed"} => steps = <<>>
        /\ pc = "analyze" => steps = <<telemetry>> /\ left(config)
        /\ pc \in {"export", "exported"} =>
              /\ steps = IF analyze THEN <<telemetry, "withBundleAnalyzer">>
                         ELSE <<telemetry>>
              /\ IF analyze
                 THEN /\ IsWrapped(config, "withBundleAnalyzer")
                      /\ left(config.inner)
                      /\ Last(handed) = config.inner
                 ELSE left(config)
        /\ exported => pc = "exported"

C8_Witness ==
    /\ pc = "exported"
    /\ steps = <<"withSentryConfig", "withBundleAnalyzer">>
    /\ config.inner.inner = nextConfig

\* C9: forceHTTPSRedirect (maxAge 345600, includeSubDomains) is handed to
\* createSecureHeaders exactly when NEXT_BUILD_ENV_CSP is true and NODE_ENV is
\* 'production'; referrerPolicy 'same-origin' is handed over always.
C9_ForceHTTPS ==
    HeadersBuilt =>
        LET o == secureHeadersOptions
            strict == buildEnv.NEXT_BUILD_ENV_CSP = "true"
                       /\ processEnv.NODE_ENV = "production"
        IN  /\ "forceHTTPSRedirect" \in DOMAIN o <=> strict
            /\ strict =>
                  /\ o.forceHTTPSRedirect[1] = TRUE
                  /\ o.forceHTTPSRedirect[2].maxAge = 345600
                  /\ o.forceHTTPSRedirect[2].includeSubDomains = TRUE
            /\ "referrerPolicy" \in DOMAIN o
            /\ o.referrerPolicy = "same-origin"

C9_Witness ==
    /\ HeadersBuilt
    /\ buildEnv.NEXT_BUILD_ENV_CSP = "true"
    /\ processEnv.NODE_ENV = "production"
    /\ "forceHTTPSRedirect" \in DOMAIN secureHeadersOptions

====
